---- MODULE Spec2Model ----
(***************************************************************************)
(* Academic Submission App: the persisted-state model.                     *)
(*                                                                         *)
(* utils/storage.js  - thirteen async functions over four AsyncStorage     *)
(*                     keys, modelled as operators that take the store     *)
(*                     and the outcome of each AsyncStorage call they      *)
(*                     make and give back the new store and the result.    *)
(* context/AppContext.js, screens/{Signup,Login,Settings}Screen.js -       *)
(*                     the session store and the handlers that drive it.   *)
(* screens/{Home,Detail,Favorites}Screen.js - the favorites handlers.      *)
(*                                                                         *)
(* components/DrawerContent.js - what the drawer header renders.           *)
(*                                                                         *)
(* Specifications:                                                         *)
(*   SpecStorage - any sequence of calls of the storage module, from any   *)
(*                 content of the four keys;                               *)
(*   Spec        - the app from a fresh install: launch, signup, login,    *)
(*                 logout, the two toggles, the favorites handlers,        *)
(*                 relaunch; each handler runs to its end in one step;     *)
(*   SpecAsync   - the favorites handlers of a logged-in session, split    *)
(*                 at their awaits and interleaved;                        *)
(*   SpecSettings - the two settings toggles, split at their await;        *)
(*   SpecAccount - saveUserData, logoutUser and clearAllData from a fresh  *)
(*                 install;                                                *)
(*   SpecLaunch  - the launch over any content of the store;               *)
(*   SpecLaunchFair - SpecLaunch with the load running to its end.         *)
(***************************************************************************)
EXTENDS Naturals, Sequences, FiniteSets

VARIABLES
  storage,               \* AsyncStorage: key -> <<>> (no item) or <<text>>
  darkMode,              \* AppContext.js:16
  notificationsEnabled,  \* AppContext.js:19
  isLoggedIn,            \* AppContext.js:22
  user,                  \* AppContext.js:25
  isLoading,             \* AppContext.js:28
  screen,                \* the focused route of the navigator
  detail,                \* DetailScreen.js:26-29: the mounted Detail screen's post and isFavorite
  tasks,                 \* the favorites operations in flight, in the order they were started
  last,                  \* history: the last operation, its inputs, I/O outcomes, result
  sinceLogout            \* history: "loggedOut" after logout, "relaunched" once relaunched after it

sessionVars == <<darkMode, notificationsEnabled, isLoggedIn, user, isLoading>>
screenVars  == <<detail, tasks>>
vars        == <<storage, darkMode, notificationsEnabled, isLoggedIn, user,
                 isLoading, screen, detail, tasks, last, sinceLogout>>

(***************************************************************************)
(* Bounds                                                                  *)
(***************************************************************************)
MaxPostId == 2
\* favorites operations in flight at once
MaxTasks == 2

(***************************************************************************)
(* JavaScript values.  Every value is a record whose field names tell its  *)
(* type, so that any two values can be compared.                           *)
(***************************************************************************)
JNull == [null |-> TRUE]
JBool(b) == [bool |-> b]
JArray(s) == [array |-> s]
IsArray(v) == DOMAIN v = {"array"}

\* A JavaScript string is a sequence of one-character strings.
IsSpace(c) == c = " "

\* over the letters the inputs use
Lower(c) ==
  CASE c = "A" -> "a"
    [] c = "S" -> "s"
    [] c = "X" -> "x"
    [] OTHER -> c

toLowerCase(s) == [i \in 1..Len(s) |-> Lower(s[i])]

RECURSIVE trimStart(_)
trimStart(s) ==
  IF s # <<>> /\ IsSpace(Head(s)) THEN trimStart(Tail(s)) ELSE s

RECURSIVE trimEnd(_)
trimEnd(s) ==
  IF s # <<>> /\ IsSpace(s[Len(s)]) THEN trimEnd(SubSeq(s, 1, Len(s) - 1)) ELSE s

trim(s) == trimEnd(trimStart(s))

(***************************************************************************)
(* JSON.  A text is [json |-> v], the serialisation of the value v, or     *)
(* [raw |-> "..."], a string that is not valid JSON.  JSON.parse throws on *)
(* the latter.                                                             *)
(***************************************************************************)
stringify(v) == [json |-> v]
parseThrows(text) == "json" \notin DOMAIN text
parse(text) == text.json

TrueText == stringify(JBool(TRUE))     \* the string 'true'
FalseText == stringify(JBool(FALSE))   \* the string 'false'
BadText == [raw |-> "{oops"]

(***************************************************************************)
(* AsyncStorage                                                            *)
(***************************************************************************)
KEYS ==
  [USER |-> "@user_data", FAVORITES |-> "@favorites",
   SETTINGS |-> "@settings", IS_LOGGED_IN |-> "@is_logged_in"]

KeyValues == {KEYS.USER, KEYS.FAVORITES, KEYS.SETTINGS, KEYS.IS_LOGGED_IN}

NoItem == <<>>
getItem(st, key) == st[key]
setItem(st, key, text) == [st EXCEPT ![key] = <<text>>]
multiRemove(st, keys) == [k \in DOMAIN st |-> IF k \in keys THEN NoItem ELSE st[k]]

EmptyStorage == [k \in KeyValues |-> NoItem]

\* Results
Success == [success |-> TRUE]
Failure(msg) == [success |-> FALSE, error |-> msg]
IOError == "storage error"
TypeError == "type error"
InvalidCredentials == "Invalid email or password"
DefaultSettings == [darkMode |-> FALSE, notifications |-> TRUE]

\* io is the sequence of outcomes of the AsyncStorage calls an operation
\* makes, in order: TRUE when the call rejects.
NoFault(n) == [i \in 1..n |-> FALSE]
IO(n) == [1..n -> BOOLEAN]

(***************************************************************************)
(* utils/storage.js                                                        *)
(***************************************************************************)
\* variant: a record that is already stored is kept
saveUserData_KeepFirst(st, userData, io) ==
  IF io[1] THEN [st |-> st, ret |-> Failure(IOError)]
  ELSE LET s1 == IF getItem(st, KEYS.USER) = NoItem
                 THEN setItem(st, KEYS.USER, stringify(userData))
                 ELSE st
       IN
       IF io[2] THEN [st |-> s1, ret |-> Failure(IOError)]
       ELSE [st |-> setItem(s1, KEYS.IS_LOGGED_IN, TrueText), ret |-> Success]

\* variant: the flag is written before the record
saveUserData_FlagFirst(st, userData, io) ==
  IF io[1] THEN [st |-> st, ret |-> Failure(IOError)]
  ELSE LET s1 == setItem(st, KEYS.IS_LOGGED_IN, TrueText) IN
       IF io[2] THEN [st |-> s1, ret |-> Failure(IOError)]
       ELSE [st |-> setItem(s1, KEYS.USER, stringify(userData)), ret |-> Success]

\* variant: the record is put back when the write of the flag fails
saveUserData_RollsBack(st, userData, io) ==
  IF io[1] THEN [st |-> st, ret |-> Failure(IOError)]
  ELSE LET s1 == setItem(st, KEYS.USER, stringify(userData)) IN
       IF io[2] THEN [st |-> st, ret |-> Failure(IOError)]
       ELSE [st |-> setItem(s1, KEYS.IS_LOGGED_IN, TrueText), ret |-> Success]

saveUserData(st, userData, io) ==
  IF io[1] THEN [st |-> st, ret |-> Failure(IOError)]
  ELSE LET s1 == setItem(st, KEYS.USER, stringify(userData)) IN
       IF io[2] THEN [st |-> s1, ret |-> Failure(IOError)]
       ELSE [st |-> setItem(s1, KEYS.IS_LOGGED_IN, TrueText), ret |-> Success]

\* an exception that leaves the function: what a caller would see without the catch
Thrown(msg) == [thrown |-> msg]
SyntaxError == "syntax error"

\* variant: JSON.parse is outside the try block
getUserData_ParseUnguarded(st, io) ==
  IF io[1] THEN JNull
  ELSE LET userData == getItem(st, KEYS.USER) IN
       IF userData = NoItem THEN JNull
       ELSE IF parseThrows(userData[1]) THEN Thrown(SyntaxError)
       ELSE parse(userData[1])

getUserData(st, io) ==
  IF io[1] THEN JNull
  ELSE LET userData == getItem(st, KEYS.USER) IN
       IF userData = NoItem THEN JNull
       ELSE IF parseThrows(userData[1]) THEN JNull
       ELSE parse(userData[1])

Truthy(v) == v # JNull /\ v # JBool(FALSE)

\* variant: the password is not compared
validateUser_EmailOnly(st, email, password, io) ==
  LET userData == getUserData(st, io) IN
  IF /\ Truthy(userData)
     /\ "email" \in DOMAIN userData /\ userData.email = email
  THEN [success |-> TRUE, user |-> userData]
  ELSE Failure(InvalidCredentials)

validateUser(st, email, password, io) ==
  LET userData == getUserData(st, io) IN
  IF /\ Truthy(userData)
     /\ "email" \in DOMAIN userData /\ userData.email = email
     /\ "password" \in DOMAIN userData /\ userData.password = password
  THEN [success |-> TRUE, user |-> userData]
  ELSE Failure(InvalidCredentials)

checkLoginStatus(st, io) ==
  IF io[1] THEN FALSE
  ELSE getItem(st, KEYS.IS_LOGGED_IN) = <<TrueText>>

logoutUser(st, io) ==
  IF io[1] THEN [st |-> st, ret |-> Failure(IOError)]
  ELSE [st |-> setItem(st, KEYS.IS_LOGGED_IN, FalseText), ret |-> Success]

saveFavorites(st, favorites, io) ==
  IF io[1] THEN [st |-> st, ret |-> Failure(IOError)]
  ELSE [st |-> setItem(st, KEYS.FAVORITES, stringify(favorites)), ret |-> Success]

getFavorites(st, io) ==
  IF io[1] THEN JArray(<<>>)
  ELSE LET favorites == getItem(st, KEYS.FAVORITES) IN
       IF favorites = NoItem THEN JArray(<<>>)
       ELSE IF parseThrows(favorites[1]) THEN JArray(<<>>)
       ELSE parse(favorites[1])

\* item.id === id, for an item that may be any value
HasId(item, id) == "id" \in DOMAIN item /\ item.id = id

\* variant: the post is pushed without the scan for its id
addToFavorites_NoScan(st, post, io) ==
  LET favorites == getFavorites(st, io) IN
  IF ~IsArray(favorites)
  THEN [st |-> st, ret |-> Failure(TypeError)]
  ELSE [st |-> saveFavorites(st, JArray(Append(favorites.array, post)), Tail(io)).st,
        ret |-> Success]

\* variant: an entry with the same id is replaced by the new post
addToFavorites_Replaces(st, post, io) ==
  LET favorites == getFavorites(st, io) IN
  IF ~IsArray(favorites)
  THEN [st |-> st, ret |-> Failure(TypeError)]
  ELSE LET exists == \E i \in 1..Len(favorites.array) : HasId(favorites.array[i], post.id)
           replaced == [i \in 1..Len(favorites.array) |->
                          IF HasId(favorites.array[i], post.id) THEN post ELSE favorites.array[i]]
       IN
       IF ~exists
       THEN [st |-> saveFavorites(st, JArray(Append(favorites.array, post)), Tail(io)).st,
             ret |-> Success]
       ELSE [st |-> saveFavorites(st, JArray(replaced), Tail(io)).st, ret |-> Success]

addToFavorites(st, post, io) ==
  LET favorites == getFavorites(st, io) IN
  IF ~IsArray(favorites)
  THEN [st |-> st, ret |-> Failure(TypeError)]
  ELSE LET exists == \E i \in 1..Len(favorites.array) : HasId(favorites.array[i], post.id) IN
       IF ~exists
       THEN [st |-> saveFavorites(st, JArray(Append(favorites.array, post)), Tail(io)).st,
             ret |-> Success]
       ELSE [st |-> st, ret |-> Success]

\* variant: the filter keeps the matching entries instead of the others
removeFromFavorites_Inverted(st, postId, io) ==
  LET favorites == getFavorites(st, io) IN
  IF ~IsArray(favorites)
  THEN [st |-> st, ret |-> Failure(TypeError)]
  ELSE LET filtered == SelectSeq(favorites.array, LAMBDA item : HasId(item, postId)) IN
       [st |-> saveFavorites(st, JArray(filtered), Tail(io)).st, ret |-> Success]

removeFromFavorites(st, postId, io) ==
  LET favorites == getFavorites(st, io) IN
  IF ~IsArray(favorites)
  THEN [st |-> st, ret |-> Failure(TypeError)]
  ELSE LET filtered == SelectSeq(favorites.array, LAMBDA item : ~HasId(item, postId)) IN
       [st |-> saveFavorites(st, JArray(filtered), Tail(io)).st, ret |-> Success]

\* variant: every() where the code has some()
isInFavorites_Every(st, postId, io) ==
  LET favorites == getFavorites(st, io) IN
  IF ~IsArray(favorites) THEN FALSE
  ELSE \A i \in 1..Len(favorites.array) : HasId(favorites.array[i], postId)

isInFavorites(st, postId, io) ==
  LET favorites == getFavorites(st, io) IN
  IF ~IsArray(favorites) THEN FALSE
  ELSE \E i \in 1..Len(favorites.array) : HasId(favorites.array[i], postId)

saveSettings(st, settings, io) ==
  IF io[1] THEN [st |-> st, ret |-> Failure(IOError)]
  ELSE [st |-> setItem(st, KEYS.SETTINGS, stringify(settings)), ret |-> Success]

\* variant: the default of an absent key has notifications off
getSettings_WrongDefault(st, io) ==
  IF io[1] THEN DefaultSettings
  ELSE LET settings == getItem(st, KEYS.SETTINGS) IN
       IF settings = NoItem THEN [darkMode |-> FALSE, notifications |-> FALSE]
       ELSE IF parseThrows(settings[1]) THEN DefaultSettings
       ELSE parse(settings[1])

getSettings(st, io) ==
  IF io[1] THEN DefaultSettings
  ELSE LET settings == getItem(st, KEYS.SETTINGS) IN
       IF settings = NoItem THEN DefaultSettings
       ELSE IF parseThrows(settings[1]) THEN DefaultSettings
       ELSE parse(settings[1])

\* variant: multiRemove is awaited without the try block
clearAllData_NoCatch(st, io) ==
  IF io[1] THEN [st |-> st, ret |-> Thrown(IOError)]
  ELSE [st |-> multiRemove(st, KeyValues), ret |-> Success]

clearAllData(st, io) ==
  IF io[1] THEN [st |-> st, ret |-> Failure(IOError)]
  ELSE [st |-> multiRemove(st, KeyValues), ret |-> Success]

(***************************************************************************)
(* Inputs                                                                  *)
(***************************************************************************)
\* sample posts (utils/api.js); post 1 also with another content under the same id
PostIds == 1..MaxPostId
\* ids asked about: those of the posts, and 0, the id of no post
QueryIds == 0..MaxPostId
SamplePost(i) == [id |-> i, userId |-> i, title |-> "sample", body |-> "body"]
samplePosts == {SamplePost(i) : i \in PostIds}
Posts == samplePosts \cup {[SamplePost(1) EXCEPT !.title = "other"]}

\* the lists the module itself writes: sequences of posts without a repeated id
NoRepeatedId(l) == \A i, j \in 1..Len(l) : i # j => l[i].id # l[j].id

RECURSIVE SeqsUpTo(_)
SeqsUpTo(n) ==
  IF n = 0 THEN {<<>>}
  ELSE LET shorter == SeqsUpTo(n - 1) IN
       shorter \cup {Append(l, p) : l \in shorter, p \in Posts}

FavLists == {l \in SeqsUpTo(MaxPostId) : NoRepeatedId(l)}

\* strings typed into the forms
EmailA == <<"a", "@", "b", ".", "c">>
EmailAUpper == <<"A", "@", "b", ".", "c">>
EmailX == <<"x", "@", "b", ".", "c">>
EmailXPadded == <<" ", "x", "@", "b", ".", "c">>
EmailNoDot == <<"a", "@", "b">>
Blank == <<" ">>
PasswordA == <<"s", "e", "c", "r", "e", "t">>
PasswordB == <<"S", "e", "c", "r", "e", "t">>
PasswordShort == <<"a", "b", "c">>

\* user objects, as handleSignup builds them
UserA == [username |-> <<"a">>, email |-> EmailA, password |-> PasswordA]
UserObjects ==
  {UserA,
   [UserA EXCEPT !.email = EmailX],
   [UserA EXCEPT !.password = PasswordB],
   [UserA EXCEPT !.username = <<"x">>]}

\* the signup form: valid ones (some needing trim and toLowerCase), and one
\* for each way validateForm rejects
SignupForms ==
  {UserA,
   [UserA EXCEPT !.username = <<" ", "x", " ">>, !.email = EmailAUpper],
   [UserA EXCEPT !.email = EmailXPadded],
   [UserA EXCEPT !.password = PasswordB],
   [UserA EXCEPT !.username = Blank],
   [UserA EXCEPT !.email = Blank],
   [UserA EXCEPT !.email = EmailNoDot],
   [UserA EXCEPT !.password = <<>>],
   [UserA EXCEPT !.password = PasswordShort]}

\* the login form
LoginForms ==
  {[email |-> EmailA, password |-> PasswordA],
   [email |-> EmailAUpper, password |-> PasswordA],
   [email |-> EmailXPadded, password |-> PasswordA],
   [email |-> EmailA, password |-> PasswordB],
   [email |-> Blank, password |-> PasswordA],
   [email |-> EmailA, password |-> <<>>]}

\* credentials offered to validateUser
CredentialEmails == {EmailA, EmailAUpper, EmailX}
CredentialPasswords == {PasswordA, PasswordB}

\* settings objects and user objects handed to the storage module
SettingsObjects == {DefaultSettings, [darkMode |-> TRUE, notifications |-> FALSE]}
StoredUsers == {u \in UserObjects : u.username = UserA.username}

(***************************************************************************)
(* SpecStorage: the storage module called directly.                        *)
(***************************************************************************)
\* what each key may hold when the module is entered
UserItems == {NoItem, <<BadText>>, <<stringify(JNull)>>} \cup {<<stringify(u)>> : u \in StoredUsers}
FavoritesItems == {NoItem, <<BadText>>} \cup {<<stringify(JArray(l))>> : l \in FavLists}
SettingsItems == {NoItem, <<BadText>>} \cup {<<stringify(s)>> : s \in SettingsObjects}
LoginItems == {NoItem, <<TrueText>>, <<FalseText>>}

\* the record of a call: its name, argument, I/O outcomes and result, and
\* what the call found in the store (pre)
Call(op, arg, io, ret, pre) == [op |-> op, arg |-> arg, io |-> io, ret |-> ret, pre |-> pre]
NoArg == [none |-> TRUE]
Succeeded(ret) == "success" \in DOMAIN ret /\ ret.success

\* no Detail screen is mounted
NoDetail == [none |-> TRUE]

InitSession ==
  /\ detail = NoDetail
  /\ tasks = <<>>
  /\ darkMode = FALSE
  /\ notificationsEnabled = TRUE
  /\ isLoggedIn = FALSE
  /\ user = JNull
  /\ isLoading = TRUE
  /\ screen = "none"
  /\ sinceLogout = "no"

InitStorage ==
  /\ storage \in {st \in [KeyValues -> UserItems \cup FavoritesItems \cup SettingsItems \cup LoginItems] :
                    /\ st[KEYS.USER] \in UserItems
                    /\ st[KEYS.FAVORITES] \in FavoritesItems
                    /\ st[KEYS.SETTINGS] \in SettingsItems
                    /\ st[KEYS.IS_LOGGED_IN] \in LoginItems}
  /\ InitSession
  /\ last = Call("none", NoArg, <<>>, NoArg, NoArg)

appVars == <<darkMode, notificationsEnabled, isLoggedIn, user, isLoading, screen,
             detail, tasks, sinceLogout>>

\* whether an entry with this id is stored when a favorites call starts
Stored(postId) == [present |-> isInFavorites(storage, postId, <<FALSE>>)]

SaveUserDataCall ==
  \E userData \in StoredUsers, io \in IO(2) :
    LET r == saveUserData(storage, userData, io) IN
    /\ storage' = r.st
    /\ last' = Call("saveUserData", userData, io, r.ret, NoArg)
    /\ UNCHANGED appVars

GetUserDataCall ==
  \E io \in IO(1) :
    /\ last' = Call("getUserData", NoArg, io, getUserData(storage, io), NoArg)
    /\ UNCHANGED <<storage, appVars>>

ValidateUserCall ==
  \E email \in CredentialEmails, password \in CredentialPasswords, io \in IO(1) :
    /\ last' = Call("validateUser", [email |-> email, password |-> password], io,
                    validateUser(storage, email, password, io), NoArg)
    /\ UNCHANGED <<storage, appVars>>

CheckLoginStatusCall ==
  \E io \in IO(1) :
    /\ last' = Call("checkLoginStatus", NoArg, io, JBool(checkLoginStatus(storage, io)), NoArg)
    /\ UNCHANGED <<storage, appVars>>

LogoutUserCall ==
  \E io \in IO(1) :
    LET r == logoutUser(storage, io) IN
    /\ storage' = r.st
    /\ last' = Call("logoutUser", NoArg, io, r.ret, NoArg)
    /\ UNCHANGED appVars

SaveFavoritesCall ==
  \E favorites \in {l \in FavLists : Len(l) <= 1 /\ \A i \in 1..Len(l) : l[i] \in samplePosts},
     io \in IO(1) :
    LET r == saveFavorites(storage, JArray(favorites), io) IN
    /\ storage' = r.st
    /\ last' = Call("saveFavorites", JArray(favorites), io, r.ret, NoArg)
    /\ UNCHANGED appVars

GetFavoritesCall ==
  \E io \in IO(1) :
    /\ last' = Call("getFavorites", NoArg, io, getFavorites(storage, io), NoArg)
    /\ UNCHANGED <<storage, appVars>>

AddToFavoritesCall ==
  \E post \in Posts, io \in IO(2) :
    LET r == addToFavorites(storage, post, io) IN
    /\ storage' = r.st
    /\ last' = Call("addToFavorites", post, io, r.ret, Stored(post.id))
    /\ UNCHANGED appVars

RemoveFromFavoritesCall ==
  \E postId \in QueryIds, io \in IO(2) :
    LET r == removeFromFavorites(storage, postId, io) IN
    /\ storage' = r.st
    /\ last' = Call("removeFromFavorites", [postId |-> postId], io, r.ret, Stored(postId))
    /\ UNCHANGED appVars

IsInFavoritesCall ==
  \E postId \in QueryIds, io \in IO(1) :
    /\ last' = Call("isInFavorites", [postId |-> postId], io,
                    JBool(isInFavorites(storage, postId, io)), NoArg)
    /\ UNCHANGED <<storage, appVars>>

SaveSettingsCall ==
  \E settings \in SettingsObjects, io \in IO(1) :
    LET r == saveSettings(storage, settings, io) IN
    /\ storage' = r.st
    /\ last' = Call("saveSettings", settings, io, r.ret, NoArg)
    /\ UNCHANGED appVars

GetSettingsCall ==
  \E io \in IO(1) :
    /\ last' = Call("getSettings", NoArg, io, getSettings(storage, io), NoArg)
    /\ UNCHANGED <<storage, appVars>>

ClearAllDataCall ==
  \E io \in IO(1) :
    LET r == clearAllData(storage, io) IN
    /\ storage' = r.st
    /\ last' = Call("clearAllData", NoArg, io, r.ret, NoArg)
    /\ UNCHANGED appVars

NextStorage ==
  \/ SaveUserDataCall
  \/ GetUserDataCall
  \/ ValidateUserCall
  \/ CheckLoginStatusCall
  \/ LogoutUserCall
  \/ SaveFavoritesCall
  \/ GetFavoritesCall
  \/ AddToFavoritesCall
  \/ RemoveFromFavoritesCall
  \/ IsInFavoritesCall
  \/ SaveSettingsCall
  \/ GetSettingsCall
  \/ ClearAllDataCall

SpecStorage == InitStorage /\ [][NextStorage]_vars

(***************************************************************************)
(* SpecAccount: the account functions of the storage module called in any  *)
(* order on a fresh install.                                               *)
(***************************************************************************)
InitAccount ==
  /\ storage = EmptyStorage
  /\ InitSession
  /\ last = Call("none", NoArg, <<>>, NoArg, NoArg)

NextAccount ==
  \/ SaveUserDataCall
  \/ LogoutUserCall
  \/ ClearAllDataCall

SpecAccount == InitAccount /\ [][NextAccount]_vars

(***************************************************************************)
(* Spec: the app.                                                          *)
(***************************************************************************)
MinPasswordLength == 6

\* /\S+@\S+\.\S+/.test(email)
EmailPatternTest(email) ==
  \E a, d \in 1..Len(email) :
    /\ email[a] = "@" /\ email[d] = "."
    /\ 1 < a /\ a + 1 < d /\ d < Len(email)
    /\ ~IsSpace(email[a - 1])
    /\ \A k \in (a + 1)..(d - 1) : ~IsSpace(email[k])
    /\ ~IsSpace(email[d + 1])

\* variant: the length of the password is not checked
validateForm_AnyLength(username, email, password) ==
  /\ trim(username) # <<>>
  /\ trim(email) # <<>> /\ EmailPatternTest(email)
  /\ password # <<>>

\* SignupScreen.validateForm
validateForm(username, email, password) ==
  /\ trim(username) # <<>>
  /\ trim(email) # <<>> /\ EmailPatternTest(email)
  /\ password # <<>> /\ Len(password) >= MinPasswordLength

\* AppNavigator: the flow that is rendered
AppNavigator ==
  IF isLoading THEN "none" ELSE IF isLoggedIn THEN "main" ELSE "auth"

AuthRoutes == {"Login", "Signup"}
MainRoutes == {"Home", "Detail", "Favorites", "Settings"}
\* the entries of the drawer; Home is HomeStack, whose top is Detail once pushed
DrawerRoutes == {"Home", "Favorites", "Settings"}
StackTop == IF detail = NoDetail THEN "Home" ELSE "Detail"
\* variant: the navigator mounts the drawer whatever isLoggedIn is
InitialRoute_AlwaysMain(loggedIn) == "Home"

InitialRoute(loggedIn) == IF loggedIn THEN "Home" ELSE "Login"

\* the state fields of the value AppProvider gives its consumers (the
\* actions of the value are the actions of this module)
value ==
  [darkMode |-> darkMode,
   notificationsEnabled |-> notificationsEnabled,
   isLoggedIn |-> isLoggedIn,
   user |-> user,
   isLoading |-> isLoading]

useApp == value

\* the placeholders of the drawer header
AcademicUser == <<"A", "c", "a", "d", "e", "m", "i", "c", " ", "U", "s", "e", "r">>
UserAtAcademic ==
  <<"u", "s", "e", "r", "@", "a", "c", "a", "d", "e", "m", "i", "c", ".", "c", "o", "m">>

\* DrawerContent: the name and the email its header renders.  It takes
\* userData from useApp(); a field the value does not have is undefined, and
\* userData?.username || placeholder is then the placeholder
DrawerContent ==
  LET context == useApp
      hasUserData == "userData" \in DOMAIN context /\ Truthy(context.userData)
      shown(field, placeholder) ==
        IF hasUserData /\ field \in DOMAIN context.userData
                       /\ context.userData[field] # <<>>
        THEN context.userData[field]
        ELSE placeholder
  IN [userName |-> shown("username", AcademicUser),
      userEmail |-> shown("email", UserAtAcademic)]

Init ==
  /\ storage = EmptyStorage
  /\ InitSession
  /\ last = Call("launch", NoArg, <<>>, NoArg, NoArg)

\* variant: the user is set without isLoggedIn
setUserData_NoLogin(userData) ==
  /\ user' = userData
  /\ isLoggedIn' = isLoggedIn

\* AppContext.setUserData / clearUserData
setUserData(userData) ==
  /\ user' = userData
  /\ isLoggedIn' = TRUE

\* variant: the user object is left in memory
clearUserData_KeepsUser ==
  /\ user' = user
  /\ isLoggedIn' = FALSE

clearUserData ==
  /\ user' = JNull
  /\ isLoggedIn' = FALSE

\* variant: setIsLoading(false) is reached only when a session was found
LoadInitialData_LoadingKept ==
  /\ isLoading
  /\ \E io \in IO(3) :
       LET settings == getSettings(storage, <<io[1]>>)
           loggedIn == checkLoginStatus(storage, <<io[2]>>)
           userData == getUserData(storage, <<io[3]>>)
       IN
       /\ darkMode' = ("darkMode" \in DOMAIN settings /\ settings.darkMode)
       /\ notificationsEnabled' =
            ~("notifications" \in DOMAIN settings /\ ~settings.notifications)
       /\ isLoggedIn' = loggedIn
       /\ user' = IF loggedIn THEN userData ELSE user
       /\ isLoading' = ~loggedIn
       /\ screen' = IF isLoading' THEN screen ELSE InitialRoute(isLoggedIn')
       /\ last' = Call("loadInitialData", NoArg, io, NoArg, NoArg)
       /\ UNCHANGED <<storage, sinceLogout, screenVars>>

\* variant: the user record is loaded whether or not the flag says logged in
LoadInitialData_UserAlways ==
  /\ isLoading
  /\ \E io \in IO(3) :
       LET settings == getSettings(storage, <<io[1]>>)
           loggedIn == checkLoginStatus(storage, <<io[2]>>)
           userData == getUserData(storage, <<io[3]>>)
       IN
       /\ IF settings = JNull
          THEN UNCHANGED <<darkMode, notificationsEnabled, isLoggedIn, user>>
          ELSE /\ darkMode' = ("darkMode" \in DOMAIN settings /\ settings.darkMode)
               /\ notificationsEnabled' =
                    ~("notifications" \in DOMAIN settings /\ ~settings.notifications)
               /\ isLoggedIn' = loggedIn
               /\ user' = userData
       /\ isLoading' = FALSE
       /\ screen' = InitialRoute(isLoggedIn')
       /\ last' = Call("loadInitialData", NoArg, io, NoArg, NoArg)
       /\ UNCHANGED <<storage, sinceLogout, screenVars>>

\* variant: the session is restored only when a user record was read
LoadInitialData_RequiresUser ==
  /\ isLoading
  /\ \E io \in IO(3) :
       LET settings == getSettings(storage, <<io[1]>>)
           loggedIn == checkLoginStatus(storage, <<io[2]>>)
           userData == getUserData(storage, <<io[3]>>)
       IN
       /\ IF settings = JNull
          THEN UNCHANGED <<darkMode, notificationsEnabled, isLoggedIn, user>>
          ELSE /\ darkMode' = ("darkMode" \in DOMAIN settings /\ settings.darkMode)
               /\ notificationsEnabled' =
                    ~("notifications" \in DOMAIN settings /\ ~settings.notifications)
               /\ isLoggedIn' = (loggedIn /\ userData # JNull)
               /\ user' = IF loggedIn THEN userData ELSE user
       /\ isLoading' = FALSE
       /\ screen' = InitialRoute(isLoggedIn')
       /\ last' = Call("loadInitialData", NoArg, io, NoArg, NoArg)
       /\ UNCHANGED <<storage, sinceLogout, screenVars>>

\* variant: setIsLoading(false) is the last statement of the try block, and
\* there is no finally block
LoadInitialData_NoFinally ==
  /\ isLoading
  /\ \E io \in IO(3) :
       LET settings == getSettings(storage, <<io[1]>>)
           loggedIn == checkLoginStatus(storage, <<io[2]>>)
           userData == getUserData(storage, <<io[3]>>)
       IN
       /\ IF settings = JNull
          THEN UNCHANGED <<darkMode, notificationsEnabled, isLoggedIn, user, isLoading>>
          ELSE /\ darkMode' = ("darkMode" \in DOMAIN settings /\ settings.darkMode)
               /\ notificationsEnabled' =
                    ~("notifications" \in DOMAIN settings /\ ~settings.notifications)
               /\ isLoggedIn' = loggedIn
               /\ user' = IF loggedIn THEN userData ELSE user
               /\ isLoading' = FALSE
       /\ screen' = InitialRoute(isLoggedIn')
       /\ last' = Call("loadInitialData", NoArg, io, NoArg, NoArg)
       /\ UNCHANGED <<storage, sinceLogout, screenVars>>

\* AppContext.loadInitialData, run once by the provider's mount effect
LoadInitialData ==
  /\ isLoading
  /\ \E io \in IO(3) :
       LET settings == getSettings(storage, <<io[1]>>)
           loggedIn == checkLoginStatus(storage, <<io[2]>>)
           userData == getUserData(storage, <<io[3]>>)
       IN
       /\ IF settings = JNull
          THEN \* settings.darkMode throws; the catch block only logs
               UNCHANGED <<darkMode, notificationsEnabled, isLoggedIn, user>>
          ELSE /\ darkMode' = ("darkMode" \in DOMAIN settings /\ settings.darkMode)
               /\ notificationsEnabled' =
                    ~("notifications" \in DOMAIN settings /\ ~settings.notifications)
               /\ isLoggedIn' = loggedIn
               /\ user' = IF loggedIn THEN userData ELSE user
       /\ isLoading' = FALSE
       /\ screen' = InitialRoute(isLoggedIn')
       /\ last' = Call("loadInitialData", NoArg, io, NoArg, NoArg)
       /\ UNCHANGED <<storage, sinceLogout, screenVars>>

\* the process is killed and started again: memory is rebuilt, the store stays
Relaunch ==
  /\ ~isLoading
  /\ darkMode' = FALSE
  /\ notificationsEnabled' = TRUE
  /\ isLoggedIn' = FALSE
  /\ user' = JNull
  /\ isLoading' = TRUE
  /\ screen' = "none"
  /\ detail' = NoDetail
  /\ tasks' = <<>>
  /\ last' = Call("launch", NoArg, <<>>, NoArg, NoArg)
  /\ sinceLogout' = IF sinceLogout = "no" THEN "no" ELSE "relaunched"
  /\ UNCHANGED <<storage>>

\* variant: the settings record is written with notifications on
toggleDarkMode_NotificationsOn(io) ==
  LET newValue == ~darkMode
      r == saveSettings(storage, [darkMode |-> newValue, notifications |-> TRUE], io)
  IN /\ darkMode' = newValue
     /\ storage' = r.st
     /\ last' = Call("toggleDarkMode", NoArg, io, r.ret, NoArg)
     /\ UNCHANGED <<notificationsEnabled, isLoggedIn, user, isLoading, screen, sinceLogout, screenVars>>

\* AppContext.toggleDarkMode
toggleDarkMode(io) ==
  LET newValue == ~darkMode
      r == saveSettings(storage, [darkMode |-> newValue, notifications |-> notificationsEnabled], io)
  IN /\ darkMode' = newValue
     /\ storage' = r.st
     /\ last' = Call("toggleDarkMode", NoArg, io, r.ret, NoArg)
     /\ UNCHANGED <<notificationsEnabled, isLoggedIn, user, isLoading, screen, sinceLogout, screenVars>>

\* AppContext.toggleNotifications
toggleNotifications(io) ==
  LET newValue == ~notificationsEnabled
      r == saveSettings(storage, [darkMode |-> darkMode, notifications |-> newValue], io)
  IN /\ notificationsEnabled' = newValue
     /\ storage' = r.st
     /\ last' = Call("toggleNotifications", NoArg, io, r.ret, NoArg)
     /\ UNCHANGED <<darkMode, isLoggedIn, user, isLoading, screen, sinceLogout, screenVars>>

\* the two switches of SettingsScreen
ToggleDarkMode ==
  /\ AppNavigator = "main" /\ screen = "Settings"
  /\ \E io \in IO(1) : toggleDarkMode(io)

ToggleNotifications ==
  /\ AppNavigator = "main" /\ screen = "Settings"
  /\ \E io \in IO(1) : toggleNotifications(io)

\* SignupScreen.handleSignup
handleSignup(username, email, password, io) ==
  LET form == [username |-> username, email |-> email, password |-> password] IN
  IF ~validateForm(username, email, password)
  THEN /\ last' = Call("handleSignup", form, <<>>, [valid |-> FALSE], NoArg)
       /\ UNCHANGED <<storage, sessionVars, screen, sinceLogout, screenVars>>
  ELSE LET userData == [username |-> trim(username),
                        email |-> toLowerCase(trim(email)),
                        password |-> password]
           result == saveUserData(storage, userData, io)
       IN /\ storage' = result.st
          /\ last' = Call("handleSignup", form, io, result.ret,
                           [stored |-> getUserData(storage, <<FALSE>>)])
          /\ IF result.ret.success
             THEN /\ setUserData(userData)
                  /\ screen' = InitialRoute(TRUE)
                  /\ sinceLogout' = "no"
             ELSE UNCHANGED <<isLoggedIn, user, screen, sinceLogout>>
          /\ UNCHANGED <<darkMode, notificationsEnabled, isLoading, screenVars>>

HandleSignup ==
  /\ AppNavigator = "auth" /\ screen = "Signup"
  /\ \E form \in SignupForms, io \in IO(2) :
       handleSignup(form.username, form.email, form.password, io)

\* variant: the session is set whatever validateUser returned
handleLogin_Unchecked(email, password, io) ==
  LET form == [email |-> email, password |-> password] IN
  IF trim(email) = <<>> \/ password = <<>>
  THEN /\ last' = Call("handleLogin", form, <<>>, [valid |-> FALSE], NoArg)
       /\ UNCHANGED <<storage, sessionVars, screen, sinceLogout, screenVars>>
  ELSE LET result == validateUser(storage, toLowerCase(trim(email)), password, io) IN
       /\ last' = Call("handleLogin", form, io, result, NoArg)
       /\ setUserData(IF result.success THEN result.user ELSE JNull)
       /\ screen' = InitialRoute(TRUE)
       /\ sinceLogout' = "no"
       /\ UNCHANGED <<storage, darkMode, notificationsEnabled, isLoading, screenVars>>

\* LoginScreen.handleLogin
handleLogin(email, password, io) ==
  LET form == [email |-> email, password |-> password] IN
  IF trim(email) = <<>> \/ password = <<>>
  THEN /\ last' = Call("handleLogin", form, <<>>, [valid |-> FALSE], NoArg)
       /\ UNCHANGED <<storage, sessionVars, screen, sinceLogout, screenVars>>
  ELSE LET result == validateUser(storage, toLowerCase(trim(email)), password, io) IN
       /\ last' = Call("handleLogin", form, io, result, NoArg)
       /\ IF result.success
          THEN /\ setUserData(result.user)
               /\ screen' = InitialRoute(TRUE)
               /\ sinceLogout' = "no"
          ELSE UNCHANGED <<isLoggedIn, user, screen, sinceLogout>>
       /\ UNCHANGED <<storage, darkMode, notificationsEnabled, isLoading, screenVars>>

HandleLogin ==
  /\ AppNavigator = "auth" /\ screen = "Login"
  /\ \E form \in LoginForms, io \in IO(1) :
       handleLogin(form.email, form.password, io)

\* variant: the logout writes the login flag
HandleLogout_Persists ==
  /\ AppNavigator = "main" /\ screen = "Settings"
  /\ clearUserData
  /\ storage' = logoutUser(storage, <<FALSE>>).st
  /\ screen' = InitialRoute(FALSE)
  /\ last' = Call("handleLogout", NoArg, <<>>, NoArg, NoArg)
  /\ sinceLogout' = "loggedOut"
  /\ detail' = NoDetail
  /\ UNCHANGED <<darkMode, notificationsEnabled, isLoading, tasks>>

\* SettingsScreen.handleLogout, the Logout button of the alert pressed
HandleLogout ==
  /\ AppNavigator = "main" /\ screen = "Settings"
  /\ clearUserData
  /\ screen' = InitialRoute(FALSE)
  /\ last' = Call("handleLogout", NoArg, <<>>, NoArg, NoArg)
  /\ sinceLogout' = "loggedOut"
  /\ detail' = NoDetail
  /\ UNCHANGED <<storage, darkMode, notificationsEnabled, isLoading, tasks>>

\* DetailScreen.checkFavoriteStatus, the mount effect: the screen's state once
\* it has run
checkFavoriteStatus(post, io) ==
  [post |-> post, isFavorite |-> isInFavorites(storage, post.id, io)]

\* HomeScreen.handlePostPress: Detail is pushed with the post and mounts
HandlePostPress ==
  /\ AppNavigator = "main" /\ screen = "Home"
  /\ \E post \in samplePosts, io \in IO(1) :
       /\ detail' = checkFavoriteStatus(post, io)
       /\ last' = Call("checkFavoriteStatus", post, io, JBool(detail'.isFavorite), NoArg)
  /\ screen' = "Detail"
  /\ UNCHANGED <<storage, sessionVars, tasks, sinceLogout>>

\* DetailScreen.handleFavoriteToggle; the storage functions catch their own
\* errors, so the handler's catch block is never entered
handleFavoriteToggle(io) ==
  LET r == IF detail.isFavorite
           THEN removeFromFavorites(storage, detail.post.id, io)
           ELSE addToFavorites(storage, detail.post, io)
  IN /\ storage' = r.st
     /\ detail' = [detail EXCEPT !.isFavorite = ~detail.isFavorite]
     /\ last' = Call("handleFavoriteToggle", detail.post, io, r.ret, Stored(detail.post.id))
     /\ UNCHANGED <<sessionVars, screen, tasks, sinceLogout>>

HandleFavoriteToggle ==
  /\ AppNavigator = "main" /\ screen = "Detail"
  /\ \E io \in IO(2) : handleFavoriteToggle(io)

\* the Back button of DetailScreen: the screen is popped, and what its
\* operations in flight set afterwards is set on an unmounted component
GoBack ==
  /\ AppNavigator = "main" /\ screen = "Detail"
  /\ screen' = "Home"
  /\ detail' = NoDetail
  /\ tasks' = [i \in 1..Len(tasks) |->
                 IF tasks[i].from = "Detail" THEN [tasks[i] EXCEPT !.mounted = FALSE]
                 ELSE tasks[i]]
  /\ UNCHANGED <<storage, sessionVars, last, sinceLogout>>

\* the entries FavoritesScreen lists: those loadFavorites read on focus and
\* after the last removal
ListedFavorites == getFavorites(storage, <<FALSE>>).array

\* FavoritesScreen.handleRemove, the Remove button of the alert pressed
handleRemove(postId, io) ==
  LET r == removeFromFavorites(storage, postId, io) IN
  /\ storage' = r.st
  /\ last' = Call("handleRemove", [postId |-> postId], io, r.ret, Stored(postId))
  /\ UNCHANGED <<sessionVars, screen, detail, tasks, sinceLogout>>

HandleRemove ==
  /\ AppNavigator = "main" /\ screen = "Favorites"
  /\ \E i \in 1..Len(ListedFavorites), io \in IO(2) :
       handleRemove(ListedFavorites[i].id, io)

\* navigation inside the rendered flow (the links of the auth screens, the drawer)
Navigate ==
  /\ AppNavigator # "none"
  /\ \E to \in (IF AppNavigator = "main" THEN DrawerRoutes ELSE AuthRoutes) :
       LET shown == IF to = "Home" THEN StackTop ELSE to IN
       /\ shown # screen
       /\ screen' = shown
  /\ UNCHANGED <<storage, sessionVars, last, sinceLogout, screenVars>>

Next ==
  \/ LoadInitialData
  \/ Relaunch
  \/ ToggleDarkMode
  \/ ToggleNotifications
  \/ HandleSignup
  \/ HandleLogin
  \/ HandleLogout
  \/ HandlePostPress
  \/ HandleFavoriteToggle
  \/ GoBack
  \/ HandleRemove
  \/ Navigate

Spec == Init /\ [][Next]_vars

(***************************************************************************)
(* SpecAsync: the Home, Detail and Favorites screens of a logged-in        *)
(* session, each favorites operation split at its awaits: the getItem of   *)
(* getFavorites, the setItem of saveFavorites, and the return to the       *)
(* handler.  A press is handled between any two of these steps.  No        *)
(* AsyncStorage call rejects here.                                         *)
(***************************************************************************)
\* an operation that has been started and awaits its getItem
Task(op, arg, from) ==
  [op |-> op, arg |-> arg, from |-> from, pc |-> "getItem",
   favorites |-> NoArg, ret |-> NoArg, mounted |-> TRUE]

FavoritesOperations == {"addToFavorites", "removeFromFavorites"}

\* the part of the storage function that runs when its getFavorites() resolves
afterGetFavorites(task, favorites) ==
  LET exists == \E i \in 1..Len(favorites.array) : HasId(favorites.array[i], task.arg.id) IN
  CASE task.op = "isInFavorites" ->
         [task EXCEPT !.pc = "return", !.ret = JBool(exists)]
    [] task.op = "addToFavorites" ->
         IF exists
         THEN [task EXCEPT !.pc = "return", !.ret = Success]
         ELSE [task EXCEPT !.pc = "setItem",
                           !.favorites = JArray(Append(favorites.array, task.arg))]
    [] task.op = "removeFromFavorites" ->
         [task EXCEPT !.pc = "setItem",
                      !.favorites = JArray(SelectSeq(favorites.array,
                                                     LAMBDA item : ~HasId(item, task.arg.id)))]

RemoveAt(seq, i) == SubSeq(seq, 1, i - 1) \o SubSeq(seq, i + 1, Len(seq))

\* the session right after the signup of UserA on a fresh install
InitAsync ==
  /\ storage = saveUserData(EmptyStorage, UserA, NoFault(2)).st
  /\ darkMode = FALSE
  /\ notificationsEnabled = TRUE
  /\ isLoggedIn = TRUE
  /\ user = UserA
  /\ isLoading = FALSE
  /\ screen = InitialRoute(TRUE)
  /\ detail = NoDetail
  /\ tasks = <<>>
  /\ last = Call("handleSignup", UserA, NoFault(2), Success, [stored |-> JNull])
  /\ sinceLogout = "no"

\* HomeScreen.handlePostPress: Detail mounts with isFavorite false and its
\* effect starts checkFavoriteStatus
OpenDetail ==
  /\ AppNavigator = "main" /\ screen = "Home"
  /\ Len(tasks) < MaxTasks
  /\ \E post \in samplePosts :
       /\ detail' = [post |-> post, isFavorite |-> FALSE]
       /\ tasks' = Append(tasks, Task("isInFavorites", post, "Detail"))
  /\ screen' = "Detail"
  /\ UNCHANGED <<storage, sessionVars, last, sinceLogout>>

\* DetailScreen.handleFavoriteToggle up to its await: the button has no
\* disabled state, and the handler reads the isFavorite of the last render
StartFavoriteToggle ==
  /\ AppNavigator = "main" /\ screen = "Detail"
  /\ Len(tasks) < MaxTasks
  /\ tasks' = Append(tasks, Task(IF detail.isFavorite THEN "removeFromFavorites"
                                                       ELSE "addToFavorites",
                                 detail.post, "Detail"))
  /\ UNCHANGED <<storage, sessionVars, screen, detail, last, sinceLogout>>

\* FavoritesScreen.handleRemove, the Remove button of the alert pressed, up to
\* its await
StartRemove ==
  /\ AppNavigator = "main" /\ screen = "Favorites"
  /\ Len(tasks) < MaxTasks
  /\ \E i \in 1..Len(ListedFavorites) :
       tasks' = Append(tasks, Task("removeFromFavorites", ListedFavorites[i], "Favorites"))
  /\ UNCHANGED <<storage, sessionVars, screen, detail, last, sinceLogout>>

\* the getItem of a task resolves
TaskGetItem ==
  \E i \in 1..Len(tasks) :
    /\ tasks[i].pc = "getItem"
    /\ tasks' = [tasks EXCEPT ![i] = afterGetFavorites(tasks[i], getFavorites(storage, <<FALSE>>))]
    /\ UNCHANGED <<storage, sessionVars, screen, detail, last, sinceLogout>>

\* the setItem of a task resolves
TaskSetItem ==
  \E i \in 1..Len(tasks) :
    /\ tasks[i].pc = "setItem"
    /\ storage' = saveFavorites(storage, tasks[i].favorites, <<FALSE>>).st
    /\ tasks' = [tasks EXCEPT ![i].pc = "return", ![i].ret = Success]
    /\ UNCHANGED <<sessionVars, screen, detail, last, sinceLogout>>

\* the storage function returns to the handler that awaited it:
\* checkFavoriteStatus and handleFavoriteToggle set isFavorite, handleRemove
\* reloads the list
TaskReturn ==
  \E i \in 1..Len(tasks) :
    /\ tasks[i].pc = "return"
    /\ tasks' = RemoveAt(tasks, i)
    /\ detail' = IF tasks[i].from = "Detail" /\ tasks[i].mounted
                 THEN [detail EXCEPT !.isFavorite =
                         CASE tasks[i].op = "isInFavorites" -> tasks[i].ret.bool
                           [] tasks[i].op = "addToFavorites" -> TRUE
                           [] tasks[i].op = "removeFromFavorites" -> FALSE]
                 ELSE detail
    /\ UNCHANGED <<storage, sessionVars, screen, last, sinceLogout>>

NextAsync ==
  \/ OpenDetail
  \/ StartFavoriteToggle
  \/ StartRemove
  \/ TaskGetItem
  \/ TaskSetItem
  \/ TaskReturn
  \/ GoBack
  \/ Navigate

SpecAsync == InitAsync /\ [][NextAsync]_vars

(***************************************************************************)
(* SpecSettings: the two switches of the Settings screen, each toggle      *)
(* split at its await: the state is set when the switch is pressed, the    *)
(* setItem of saveSettings resolves later.  Nothing in the code orders the *)
(* setItem calls of two toggles in flight.  No AsyncStorage call rejects.  *)
(***************************************************************************)
\* AppContext.toggleDarkMode up to its await: the new value is set, and the
\* record for saveSettings is built from the state of that moment
StartToggleDarkMode ==
  /\ AppNavigator = "main" /\ screen = "Settings"
  /\ Len(tasks) < MaxTasks
  /\ LET newValue == ~darkMode IN
       /\ darkMode' = newValue
       /\ tasks' = Append(tasks,
                     [Task("toggleDarkMode",
                           [darkMode |-> newValue, notifications |-> notificationsEnabled],
                           "Settings") EXCEPT !.pc = "setItem"])
  /\ UNCHANGED <<storage, notificationsEnabled, isLoggedIn, user, isLoading,
                 screen, detail, last, sinceLogout>>

\* AppContext.toggleNotifications up to its await
StartToggleNotifications ==
  /\ AppNavigator = "main" /\ screen = "Settings"
  /\ Len(tasks) < MaxTasks
  /\ LET newValue == ~notificationsEnabled IN
       /\ notificationsEnabled' = newValue
       /\ tasks' = Append(tasks,
                     [Task("toggleNotifications",
                           [darkMode |-> darkMode, notifications |-> newValue],
                           "Settings") EXCEPT !.pc = "setItem"])
  /\ UNCHANGED <<storage, darkMode, isLoggedIn, user, isLoading,
                 screen, detail, last, sinceLogout>>

\* the setItem of a toggle's saveSettings resolves; the toggle does nothing
\* after its await
SettingsSetItem ==
  \E i \in 1..Len(tasks) :
    /\ tasks[i].pc = "setItem" /\ tasks[i].from = "Settings"
    /\ storage' = saveSettings(storage, tasks[i].arg, <<FALSE>>).st
    /\ tasks' = RemoveAt(tasks, i)
    /\ UNCHANGED <<sessionVars, screen, detail, last, sinceLogout>>

NextSettings ==
  \/ StartToggleDarkMode
  \/ StartToggleNotifications
  \/ SettingsSetItem
  \/ Navigate

SpecSettings == InitAsync /\ [][NextSettings]_vars

(***************************************************************************)
(* SpecLaunch: the launch of the app over any content of the user,         *)
(* settings and login-flag keys, as another run or a damaged store may     *)
(* have left them.                                                         *)
(***************************************************************************)
LaunchSettingsItems ==
  {NoItem, <<BadText>>, <<stringify(JNull)>>}
    \cup {<<stringify([darkMode |-> d, notifications |-> n])>> : d, n \in BOOLEAN}

InitLaunch ==
  /\ storage \in {st \in [KeyValues -> UserItems \cup LaunchSettingsItems \cup LoginItems] :
                    /\ st[KEYS.USER] \in UserItems
                    /\ st[KEYS.FAVORITES] = NoItem
                    /\ st[KEYS.SETTINGS] \in LaunchSettingsItems
                    /\ st[KEYS.IS_LOGGED_IN] \in LoginItems}
  /\ InitSession
  /\ last = Call("launch", NoArg, <<>>, NoArg, NoArg)

NextLaunch ==
  \/ LoadInitialData
  \/ Relaunch

SpecLaunch == InitLaunch /\ [][NextLaunch]_vars

\* the launches with the load running to its end: the mount effect calls
\* loadInitialData, and each AsyncStorage call it awaits resolves or rejects
SpecLaunchFair == InitLaunch /\ [][NextLaunch]_vars /\ WF_vars(LoadInitialData)

(***************************************************************************)
(* Properties                                                              *)
(***************************************************************************)
\* what the keys hold, read without an I/O fault
StoredFavorites == getFavorites(storage, <<FALSE>>).array
StoredUser == getUserData(storage, <<FALSE>>)
StoredSettings == getItem(storage, KEYS.SETTINGS)
CountId(l, id) == Cardinality({i \in 1..Len(l) : l[i].id = id})

\* C1: favorites uniqueness.  From a stored list without a repeated id, after
\* any sequence of calls of the storage module the stored list has at most one
\* entry per id; and after addToFavorites(post) whose write, if one was made,
\* did not fail it has exactly one entry with post.id, whether or not that id
\* was stored before the call.
C1_FavoritesUnique ==
  /\ NoRepeatedId(StoredFavorites)
  /\ (last.op = "addToFavorites" /\ ~last.io[2]) =>
       CountId(StoredFavorites, last.arg.id) = 1

\* C1 witness: addToFavorites of an id that was already stored (with another
\* content) has run, and one entry, the old one, is stored under that id.
C1_Witness ==
  /\ last.op = "addToFavorites" /\ last.io = NoFault(2)
  /\ last.pre.present
  /\ last.arg \notin {StoredFavorites[i] : i \in 1..Len(StoredFavorites)}
  /\ CountId(StoredFavorites, last.arg.id) = 1
  /\ Len(StoredFavorites) = 2

\* C2: validateUser(email, password) succeeds, with the stored record, exactly
\* when the read of the user key succeeds, the key holds a parsable record and
\* the record's email and password equal the arguments; otherwise it fails
\* with the invalid-credentials error.
C2_ValidateUserIff ==
  last.op = "validateUser" =>
    LET item == storage[KEYS.USER]
        readable == /\ ~last.io[1]
                    /\ item # NoItem
                    /\ "json" \in DOMAIN item[1]
                    /\ item[1].json # JNull
        matches == /\ readable
                   /\ item[1].json.email = last.arg.email
                   /\ item[1].json.password = last.arg.password
    IN /\ last.ret.success <=> matches
       /\ last.ret.success => last.ret = [success |-> TRUE, user |-> item[1].json]
       /\ ~last.ret.success => last.ret = [success |-> FALSE, error |-> InvalidCredentials]

\* C2 witness: validateUser has succeeded.
C2_Witness ==
  /\ last.op = "validateUser"
  /\ last.ret.success
  /\ last.ret.user.email = last.arg.email

C4_LogoutSurvivesRelaunch ==
  (sinceLogout = "relaunched" /\ ~isLoading) => ~isLoggedIn

\* C5: login lifecycle.  Between two states in which the initial load has
\* completed, isLoggedIn turns true only in a handleSignup whose saveUserData
\* succeeded or a handleLogin whose validateUser succeeded, and turns false
\* only in handleLogout; after a signup or login that did not succeed
\* isLoggedIn is false.
C5_LoginLifecycle ==
  [][(~isLoading /\ ~isLoading')
       => /\ (~isLoggedIn /\ isLoggedIn')
               => /\ last'.op \in {"handleSignup", "handleLogin"}
                  /\ Succeeded(last'.ret)
          /\ (isLoggedIn /\ ~isLoggedIn') => last'.op = "handleLogout"
          /\ (/\ last'.op \in {"handleSignup", "handleLogin"}
              /\ ~Succeeded(last'.ret))
               => ~isLoggedIn'
    ]_vars

\* C5 witness: a login has succeeded (after a signup and a logout).
C5_Witness ==
  /\ last.op = "handleLogin" /\ Succeeded(last.ret)
  /\ isLoggedIn /\ ~isLoading
  /\ user = StoredUser

\* C6: single account.  After a signup that succeeded the user key holds the
\* new account's record and nothing else, whatever it held before; and if it
\* held an account with another email or another password, validateUser with
\* that account's credentials fails.
C6_SingleAccount ==
  (last.op = "handleSignup" /\ Succeeded(last.ret)) =>
    LET B == [username |-> trim(last.arg.username),
              email |-> toLowerCase(trim(last.arg.email)),
              password |-> last.arg.password]
        A == last.pre.stored
    IN /\ storage[KEYS.USER] = <<stringify(B)>>
       /\ (A # JNull /\ (A.email # B.email \/ A.password # B.password))
            => \A io \in IO(1) : ~validateUser(storage, A.email, A.password, io).success

\* C6 witness: a signup has succeeded over the stored record of an account
\* with another password.
C6_Witness ==
  /\ last.op = "handleSignup" /\ Succeeded(last.ret)
  /\ last.pre.stored # JNull
  /\ last.pre.stored.password # last.arg.password
  /\ StoredUser.password = last.arg.password

\* C7: toggleDarkMode from off whose write succeeds leaves the settings key
\* holding {darkMode: true, notifications: n}, n being notificationsEnabled
\* before the toggle; and no toggleDarkMode changes notificationsEnabled.
C7_ToggleDarkModeFrame ==
  [][(last'.op = "toggleDarkMode" /\ darkMode' # darkMode)
       => /\ notificationsEnabled' = notificationsEnabled
          /\ (~darkMode /\ Succeeded(last'.ret))
               => storage'[KEYS.SETTINGS] =
                    <<stringify([darkMode |-> TRUE, notifications |-> notificationsEnabled])>>
    ]_vars

\* C7 witness: dark mode has been switched on with notifications off, and the
\* record is stored.
C7_Witness ==
  /\ last.op = "toggleDarkMode" /\ Succeeded(last.ret)
  /\ darkMode /\ ~notificationsEnabled
  /\ StoredSettings = <<stringify([darkMode |-> TRUE, notifications |-> FALSE])>>

\* C8: fresh install.  With none of the four keys stored, getSettings returns
\* {darkMode: false, notifications: true}, getFavorites the empty list and
\* checkLoginStatus false, whatever the reads do; and the initial load leaves
\* darkMode false, notificationsEnabled true, isLoggedIn false, user null.
C8_FreshInstall ==
  [][storage = EmptyStorage
       => /\ \A io \in IO(1) :
               /\ getSettings(storage, io) = [darkMode |-> FALSE, notifications |-> TRUE]
               /\ getFavorites(storage, io) = JArray(<<>>)
               /\ checkLoginStatus(storage, io) = FALSE
          /\ (isLoading /\ ~isLoading')
               => /\ darkMode' = FALSE /\ notificationsEnabled' = TRUE
                  /\ isLoggedIn' = FALSE /\ user' = JNull
    ]_vars

\* C8 witness: the initial load has completed on a fresh install.
C8_Witness ==
  /\ storage = EmptyStorage
  /\ last.op = "loadInitialData"
  /\ ~isLoading /\ ~darkMode /\ notificationsEnabled /\ ~isLoggedIn /\ user = JNull

C10_WriteFailureSurfaced ==
  (/\ last.op \in {"addToFavorites", "removeFromFavorites"}
   /\ last.op = "addToFavorites" => ~last.pre.present
   /\ last.io = <<FALSE, TRUE>>)
  => ~last.ret.success

\* C11: no operation of the storage module lets a storage I/O failure out as
\* an exception.  When an AsyncStorage call it makes rejects, saveUserData,
\* logoutUser, saveFavorites, saveSettings and clearAllData return
\* {success: false, error}, and getUserData, getFavorites, getSettings,
\* checkLoginStatus and isInFavorites return null, [], the default settings,
\* false and false.
C11_IOFailureReturned ==
  LET failed == \E i \in 1..Len(last.io) : last.io[i] IN
  /\ (/\ last.op \in {"saveUserData", "logoutUser", "saveFavorites", "saveSettings", "clearAllData"}
      /\ failed)
       => last.ret = [success |-> FALSE, error |-> IOError]
  /\ (last.op = "getUserData" /\ failed) => last.ret = JNull
  /\ (last.op = "getFavorites" /\ failed) => last.ret = JArray(<<>>)
  /\ (last.op = "getSettings" /\ failed) => last.ret = DefaultSettings
  /\ (last.op = "checkLoginStatus" /\ failed) => last.ret = JBool(FALSE)
  /\ (last.op = "isInFavorites" /\ failed) => last.ret = JBool(FALSE)

\* C11 witness: clearAllData has run while multiRemove rejected, over a store
\* that holds a record, and returned the failure result; the record is kept.
C11_Witness ==
  /\ last.op = "clearAllData" /\ last.io = <<TRUE>>
  /\ last.ret = Failure(IOError)
  /\ StoredUser \in UserObjects

\* C12: a text that is not valid JSON under the user, favorites or settings
\* key is read as an absent key: getUserData returns null, getFavorites the
\* empty list, getSettings {darkMode: false, notifications: true}, each the
\* same as with the key removed, and the call returns a value, not an error.
C12_BadJsonAsAbsent ==
  LET Bad(key) == storage[key] # NoItem /\ parseThrows(storage[key][1])
      Without(key) == multiRemove(storage, {key})
  IN
  /\ Bad(KEYS.USER) =>
       /\ getUserData(storage, <<FALSE>>) = JNull
       /\ getUserData(storage, <<FALSE>>) = getUserData(Without(KEYS.USER), <<FALSE>>)
       /\ (last.op = "getUserData" /\ ~last.io[1]) => last.ret = JNull
  /\ Bad(KEYS.FAVORITES) =>
       /\ getFavorites(storage, <<FALSE>>) = JArray(<<>>)
       /\ getFavorites(storage, <<FALSE>>) = getFavorites(Without(KEYS.FAVORITES), <<FALSE>>)
       /\ (last.op = "getFavorites" /\ ~last.io[1]) => last.ret = JArray(<<>>)
  /\ Bad(KEYS.SETTINGS) =>
       /\ getSettings(storage, <<FALSE>>) = [darkMode |-> FALSE, notifications |-> TRUE]
       /\ getSettings(storage, <<FALSE>>) = getSettings(Without(KEYS.SETTINGS), <<FALSE>>)
       /\ (last.op = "getSettings" /\ ~last.io[1]) => last.ret = DefaultSettings

\* C12 witness: getUserData has run, the read succeeding, over a user key that
\* holds a text that does not parse, and returned null.
C12_Witness ==
  /\ last.op = "getUserData" /\ last.io = <<FALSE>>
  /\ storage[KEYS.USER] = <<BadText>>
  /\ last.ret = JNull

\* C17: when, in saveUserData, the write of the user record succeeds and the
\* write of the login flag fails, saveUserData returns a failure, the user key
\* holds the new record (no rollback), and the login flag and the two other
\* keys hold what they held before.
C17_PartialWriteDesync ==
  [][(last'.op = "saveUserData" /\ last'.io = <<FALSE, TRUE>>)
       => /\ last'.ret = Failure(IOError)
          /\ storage'[KEYS.USER] = <<stringify(last'.arg)>>
          /\ storage'[KEYS.IS_LOGGED_IN] = storage[KEYS.IS_LOGGED_IN]
          /\ storage'[KEYS.FAVORITES] = storage[KEYS.FAVORITES]
          /\ storage'[KEYS.SETTINGS] = storage[KEYS.SETTINGS]
    ]_vars

\* C17 witness: saveUserData has failed on its second write, and the store
\* holds the new record with a login flag that is not 'true'.
C17_Witness ==
  /\ last.op = "saveUserData" /\ last.io = <<FALSE, TRUE>>
  /\ ~last.ret.success
  /\ StoredUser = last.arg
  /\ storage[KEYS.IS_LOGGED_IN] # <<TrueText>>

\* C20: addToFavorites(post) whose read and write succeed.  If no stored entry
\* has post.id, the stored list becomes the list before followed by post; if
\* one has, the favorites key is left as it was, also when the post differs
\* from the stored entry in its other fields.  Either way it returns success.
C20_AddAppendsOrKeeps ==
  [][(last'.op = "addToFavorites" /\ last'.io = NoFault(2))
       => LET before == getFavorites(storage, <<FALSE>>).array
              after == getFavorites(storage', <<FALSE>>).array
          IN /\ last'.ret = Success
             /\ IF last'.pre.present
                THEN /\ storage'[KEYS.FAVORITES] = storage[KEYS.FAVORITES]
                     /\ after = before
                ELSE after = Append(before, last'.arg)
    ]_vars

\* C20 witness: addToFavorites of a post whose id was not stored has run
\* against a list of one entry, and the post is the second entry.
C20_Witness ==
  /\ last.op = "addToFavorites" /\ last.io = NoFault(2)
  /\ ~last.pre.present
  /\ Len(StoredFavorites) = 2
  /\ StoredFavorites[2] = last.arg
  /\ StoredFavorites[1].id # last.arg.id

\* C14: loading is one-shot.  isLoading is true when the process starts, is
\* false once loadInitialData has run, and no step of the running app (the
\* toggles, signup, login, logout, opening a post, the favorites handlers,
\* navigation) makes it true again.
C14_LoadingOneShot ==
  [][/\ last.op = "launch" => isLoading
     /\ last'.op = "loadInitialData" => ~isLoading'
     /\ (~isLoading /\ last'.op # "launch") => ~isLoading'
    ]_vars

\* C14 witness: after the initial load, a signup, a favorite added from the
\* Detail screen and a toggle of dark mode, isLoading is false.
C14_Witness ==
  /\ ~isLoading
  /\ last.op = "toggleDarkMode"
  /\ isLoggedIn /\ darkMode
  /\ Len(ListedFavorites) = 1

\* C15: flow selection.  While isLoading the navigator renders no flow and no
\* route is focused; otherwise it renders the main flow, and the focused route
\* is Home, Detail, Favorites or Settings, exactly when isLoggedIn is true, and
\* the auth flow, with Login or Signup focused, exactly when it is false.
C15_FlowSelection ==
  /\ isLoading => (AppNavigator = "none" /\ screen = "none")
  /\ ~isLoading =>
       /\ (AppNavigator = "main") <=> isLoggedIn
       /\ (AppNavigator = "auth") <=> ~isLoggedIn
       /\ (screen \in {"Home", "Detail", "Favorites", "Settings"}) <=> isLoggedIn
       /\ (screen \in {"Login", "Signup"}) <=> ~isLoggedIn

\* C15 witness: logged out again after a session, the Signup screen of the
\* auth flow is focused.
C15_Witness ==
  /\ sinceLogout = "loggedOut"
  /\ ~isLoading /\ ~isLoggedIn
  /\ AppNavigator = "auth" /\ screen = "Signup"

\* C19: a validation failure attempts no persistence.  handleSignup with a
\* username empty after trimming, an email empty or not of the form x@y.z, or
\* a password empty or shorter than 6 characters makes no storage call and
\* leaves the store and the session as they were; so does handleLogin with an
\* email empty after trimming or an empty password.
C19_InvalidFormNoPersistence ==
  [][LET form == last'.arg
         untouched == /\ last'.io = <<>>
                      /\ storage' = storage
                      /\ UNCHANGED sessionVars
     IN
     /\ (/\ last'.op = "handleSignup"
         /\ \/ trim(form.username) = <<>>
            \/ trim(form.email) = <<>>
            \/ ~EmailPatternTest(form.email)
            \/ form.password = <<>>
            \/ Len(form.password) < MinPasswordLength)
        => untouched
     /\ (/\ last'.op = "handleLogin"
         /\ trim(form.email) = <<>> \/ form.password = <<>>)
        => untouched
    ]_vars

\* C19 witness: handleSignup has rejected a form whose password is too short,
\* on a fresh install, and nothing is stored.
C19_Witness ==
  /\ last.op = "handleSignup"
  /\ last.arg.password = PasswordShort
  /\ last.ret = [valid |-> FALSE]
  /\ storage = EmptyStorage
  /\ ~isLoggedIn /\ user = JNull

C18_LoggedInWithoutUser ==
  [][(isLoading /\ ~isLoading')
       => LET io == last'.io
              flagTrue == storage[KEYS.IS_LOGGED_IN] = <<TrueText>> /\ ~io[2]
              noUser == \/ storage[KEYS.USER] \in {NoItem, <<BadText>>, <<stringify(JNull)>>}
                        \/ io[3]
          IN /\ (isLoggedIn' /\ user' = JNull) => (flagTrue /\ noUser)
             /\ (flagTrue /\ noUser /\ getSettings(storage, <<io[1]>>) # JNull)
                  => (isLoggedIn' /\ user' = JNull)
    ]_vars

\* C18 witness: the load has completed without a fault over a store whose
\* login flag is 'true' and whose user key is absent; isLoggedIn is true and
\* user is null.
C18_Witness ==
  /\ last.op = "loadInitialData" /\ last.io = NoFault(3)
  /\ ~isLoading
  /\ storage[KEYS.IS_LOGGED_IN] = <<TrueText>>
  /\ storage[KEYS.USER] = NoItem
  /\ isLoggedIn /\ user = JNull

\* C16: at most one favorites operation (addToFavorites or
\* removeFromFavorites, from its start to its return to the handler) is in
\* flight at any time.
C16_OneFavoritesOperationInFlight ==
  Cardinality({i \in 1..Len(tasks) : tasks[i].op \in FavoritesOperations}) <= 1

\* C21: membership round trip.  isInFavorites(id), its read succeeding, is
\* true exactly when the list getFavorites returns has an entry with that id;
\* and after addToFavorites of a post, or removeFromFavorites of an id, that
\* ran without an I/O fault, isInFavorites of that id is true, or false,
\* whatever the store held before.
C21_MembershipRoundTrip ==
  LET Listed(id) == \E i \in 1..Len(StoredFavorites) : StoredFavorites[i].id = id IN
  /\ \A id \in QueryIds : isInFavorites(storage, id, <<FALSE>>) <=> Listed(id)
  /\ (last.op = "isInFavorites" /\ ~last.io[1])
       => last.ret = JBool(Listed(last.arg.postId))
  /\ (last.op = "addToFavorites" /\ last.io = NoFault(2))
       => isInFavorites(storage, last.arg.id, <<FALSE>>)
  /\ (last.op = "removeFromFavorites" /\ last.io = NoFault(2))
       => ~isInFavorites(storage, last.arg.postId, <<FALSE>>)

\* C21 witness: removeFromFavorites of a stored id has run against a list of
\* two entries; the id is no longer a member and the other entry still is.
C21_Witness ==
  /\ last.op = "removeFromFavorites" /\ last.io = NoFault(2)
  /\ last.pre.present
  /\ ~isInFavorites(storage, last.arg.postId, <<FALSE>>)
  /\ Len(StoredFavorites) = 1
  /\ isInFavorites(storage, StoredFavorites[1].id, <<FALSE>>)

\* C22: favorites belong to the stored account.  Right after a signup that
\* replaced the stored record of another account (another email), before any
\* favorite has been added under the new account, the favorites list the app
\* shows is empty: nothing favorited under the previous account is visible.
C22_FavoritesOfStoredAccountOnly ==
  (/\ last.op = "handleSignup" /\ Succeeded(last.ret)
   /\ last.pre.stored # JNull
   /\ last.pre.stored.email # StoredUser.email)
    => ListedFavorites = <<>>

\* C23: the favorite indicator of the Detail screen agrees with the store.
\* Whenever a Detail screen is shown and none of its operations (the status
\* check of its mount, the additions and removals of its button) is in
\* flight, its isFavorite is true exactly when the id of its post is in the
\* stored favorites list.  No storage call fails in SpecAsync.
C23_DetailIndicatorConsistent ==
  (/\ detail # NoDetail
   /\ \A i \in 1..Len(tasks) : ~(tasks[i].from = "Detail" /\ tasks[i].mounted))
    => detail.isFavorite = isInFavorites(storage, detail.post.id, <<FALSE>>)

\* C24: no lost update in the favorites.  When an addToFavorites of post A and
\* another favorites operation on a post B with another id have both run to
\* their successful return, A is stored; and B is stored too if the other
\* operation was an addToFavorites, absent if it was a removeFromFavorites.
C24_NoLostUpdate ==
  LET Listed(id) == isInFavorites(storage, id, <<FALSE>>) IN
  \A i, j \in 1..Len(tasks) :
    (/\ i # j
     /\ tasks[i].pc = "return" /\ tasks[j].pc = "return"
     /\ tasks[i].op = "addToFavorites" /\ tasks[j].op \in FavoritesOperations
     /\ tasks[i].arg.id # tasks[j].arg.id)
      => /\ Listed(tasks[i].arg.id)
         /\ Listed(tasks[j].arg.id) <=> (tasks[j].op = "addToFavorites")

\* C25: the settings stay mirrored.  Whenever no toggle's write is pending,
\* whatever toggles were pressed and in whatever order their writes landed,
\* the persisted settings record (the defaults while none was written) is
\* {darkMode: darkMode, notifications: notificationsEnabled} of the session.
C25_SettingsMirrored ==
  (tasks = <<>>)
    => getSettings(storage, <<FALSE>>)
         = [darkMode |-> darkMode, notifications |-> notificationsEnabled]

\* C26: the persisted flag implies a record.  From a fresh install, after any
\* calls of saveUserData, logoutUser and clearAllData, any AsyncStorage call
\* of which may reject, a user record is stored whenever the persisted login
\* flag is 'true'.
C26_FlagImpliesRecord ==
  getItem(storage, KEYS.IS_LOGGED_IN) = <<TrueText>>
    => /\ getItem(storage, KEYS.USER) # NoItem
       /\ StoredUser # JNull

\* C26 witness: with the flag 'true', a saveUserData has replaced the record
\* and its write of the flag was rejected.
C26_Witness ==
  /\ last.op = "saveUserData" /\ last.io = <<FALSE, TRUE>>
  /\ getItem(storage, KEYS.IS_LOGGED_IN) = <<TrueText>>
  /\ StoredUser = last.arg

C29_LoadFinishes ==
  isLoading ~> ~isLoading

\* C29 witness: the load has finished over a settings value of JSON null and
\* a flag of 'true'; reading settings.darkMode threw, so the session is
\* still logged out, and isLoading is false.
C29_Witness ==
  /\ last.op = "loadInitialData"
  /\ getItem(storage, KEYS.SETTINGS) = <<stringify(JNull)>>
  /\ getItem(storage, KEYS.IS_LOGGED_IN) = <<TrueText>>
  /\ ~isLoading /\ ~isLoggedIn

\* C30: the drawer header shows the logged-in account.  Whenever the session
\* is logged in with a user record and the drawer is mounted, the drawer
\* shows the username and the email of that record, not the placeholders.
C30_DrawerShowsAccount ==
  (AppNavigator = "main" /\ isLoggedIn /\ user # JNull)
    => DrawerContent = [userName |-> user.username, userEmail |-> user.email]

====
